---- MODULE Spec2Model ----
(***************************************************************************)
(* Model of src/app.py: the Streamlit interview-preparation assistant.     *)
(*                                                                         *)
(* One script run is: credential gate -> form -> (on submit) validation -> *)
(* search_company_info -> generate_interview_guide -> presentation.        *)
(* The two provider calls are the only points where the run waits for the  *)
(* outside world, so a run is cut into steps at exactly those points.      *)
(*                                                                         *)
(* Text is a sequence of one-character strings.  A Python value that may   *)
(* be None / missing is a tagged tuple: <<"absent">>, <<"null">> or        *)
(* <<"str", text>>.                                                        *)
(***************************************************************************)
EXTENDS Integers, Sequences, FiniteSets, TLC

\* ------------------------------------------------------------------ bounds
\* Longest `organic` list the search provider answers with.
MaxResults == 7
\* Longest message content the completion provider answers with.
MaxContentLen == 2

\* ------------------------------------------------------- values and text
Absent == <<"absent">>
Null == <<"null">>
Str(s) == <<"str", s>>

NL == "\n"
EmDash == "EMDASH"

\* Python truthiness of an optional string: None and "" are falsy.
Truthy(v) == v[1] = "str" /\ v[2] # <<>>

SeqsUpTo(S, n) == UNION {[1..k -> S] : k \in 0..n}

Min(a, b) == IF a < b THEN a ELSE b

\* s contains sub as a contiguous substring.
Contains(s, sub) ==
    \E i \in 0..(Len(s) - Len(sub)) : SubSeq(s, i + 1, i + Len(sub)) = sub

Count(seq, e) == Cardinality({i \in 1..Len(seq) : seq[i] = e})

\* --------------------------------------------------- the credential gate
\* os.getenv gives None for an unset variable, else its text.
EnvValues == {Absent, Str(<<>>), Str(<<"k">>)}

KeysMissingAnd(groq, serper) == ~Truthy(groq) /\ ~Truthy(serper)
\* app.py:18  `if not GROQ_API_KEY or not SERPER_API_KEY`
KeysMissing(groq, serper) == ~Truthy(groq) \/ ~Truthy(serper)

\* ----------------------------------------------------------- form inputs
\* st.text_input always yields a str; "" when the field is left empty.
CompanyNames == {<<>>, <<"A">>, <<"/">>}
JobRoles == {<<>>, <<"E">>}

InputsMissingAnd(company, role) == company = <<>> /\ role = <<>>
\* app.py:158  `if not company_name or not job_role`
InputsMissing(company, role) == company = <<>> \/ role = <<>>

\* ------------------------------------------------- search provider replies
\* One element of the `organic` list.  type "object" is a JSON object with
\* the three keys present or not; type "string" is a JSON value that is not
\* an object (it has no .get).
Full == [type |-> "object", title |-> Str(<<"t">>), link |-> Str(<<"u">>),
         snippet |-> Str(<<"s">>)]
Bare == [type |-> "object", title |-> Absent, link |-> Absent,
         snippet |-> Absent]
Odd == [type |-> "object", title |-> Str(<<>>), link |-> Null,
        snippet |-> Str(<<NL>>)]
NonObject == [type |-> "string", title |-> Absent, link |-> Absent,
              snippet |-> Absent]
ItemPool == {Full, Bare, Odd, NonObject}

\* The value under "organic": missing key, JSON null (every falsy value takes
\* the same path at app.py:43), a list, or a truthy value that is not a list
\* (a number, an object), on which the slice or .get raises.
OrganicValues ==
    {Absent, Null, <<"other">>}
        \cup {<<"list", l>> : l \in SeqsUpTo(ItemPool, MaxResults)}

\* What the POST comes back with.  "transport": requests.post raises;
\* "http_error": raise_for_status raises; "bad_body": the body is not JSON or
\* not a JSON object, so .json().get raises; "ok": a 2xx JSON object.
SearchResponses ==
    {[kind |-> k, organic |-> Absent] : k \in {"transport", "http_error", "bad_body"}}
        \cup {[kind |-> "ok", organic |-> o] : o \in OrganicValues}

\* app.py:35-41  anything raised inside the try block is caught.
TryBlockRaises(resp) == resp.kind # "ok"

\* app.py:38  `.get("organic", [])`: a missing key becomes the empty list.
Organic(resp) ==
    IF resp.organic = Absent THEN <<"list", <<>>>> ELSE resp.organic

NoResultsNever(results) == FALSE
\* app.py:43  `if not results`: None and the empty list are falsy.
NoResults(results) ==
    \/ results = Null
    \/ results[1] = "list" /\ results[2] = <<>>

Sentinel ==
    <<"N", "o", " ", "r", "e", "l", "e", "v", "a", "n", "t", " ",
      "i", "n", "f", "o", " ", "f", "o", "u", "n", "d", ".">>

SentinelEmpty == <<>>
\* app.py:44  `return "No relevant info found."`
NoResultsDigest == Sentinel

\* app.py:47  the slice bound of `results[:6]`
SliceLen == 6

FirstFive(list) == SubSeq(list, 1, Min(Len(list), 5))
\* app.py:47  `results[:6]`
Slice(list) == SubSeq(list, 1, Min(Len(list), SliceLen))

\* How an f-string renders a value: None prints as "None".
Format(v) == IF v = Null THEN <<"N", "o", "n", "e">> ELSE v[2]

\* app.py:48-50  `item.get(key, "")`
Get(item, key) == IF item[key] = Absent THEN Str(<<>>) ELSE item[key]

\* app.py:51  f"- [{title}]({link}) — {snippet}"
FormatLine(title, link, snippet) ==
    <<"-", " ", "[">> \o Format(title) \o <<"]", "(">> \o Format(link)
        \o <<")", " ", EmDash, " ">> \o Format(snippet)

\* app.py:53  "\n".join(summary)
Join(lines) ==
    LET F[i \in 0..Len(lines)] ==
            IF i = 0 THEN <<>>
            ELSE IF i = 1 THEN lines[1]
            ELSE F[i - 1] \o <<NL>> \o lines[i]
    IN F[Len(lines)]

\* app.py:46-51  the loop: summary after the items seen so far, or the
\* exception raised by `.get` on an item that is not an object.
RECURSIVE Summarize(_, _)
Summarize(items, summary) ==
    IF items = <<>> THEN [raised |-> FALSE, summary |-> summary]
    ELSE LET item == Head(items) IN
         IF item.type # "object" THEN [raised |-> TRUE, summary |-> summary]
         ELSE Summarize(Tail(items),
                  Append(summary,
                         FormatLine(Get(item, "title"), Get(item, "link"),
                                    Get(item, "snippet"))))

\* app.py:26-53  search_company_info, given what the POST came back with.
\* how: "return" with the text, or "raise" when an exception leaves it.
search_company_info(resp) ==
    IF TryBlockRaises(resp) THEN [how |-> "return", error |-> TRUE, facts |-> <<>>]
    ELSE LET results == Organic(resp) IN
         IF NoResults(results)
         THEN [how |-> "return", error |-> FALSE, facts |-> NoResultsDigest]
         ELSE IF results[1] # "list"
         THEN [how |-> "raise", error |-> FALSE, facts |-> <<>>]
         ELSE LET loop == Summarize(Slice(results[2]), <<>>) IN
              IF loop.raised
              THEN [how |-> "raise", error |-> FALSE, facts |-> <<>>]
              ELSE [how |-> "return", error |-> FALSE, facts |-> Join(loop.summary)]

\* ------------------------------------------------------- guide generation
PromptNoFacts(company, role, facts) ==
    <<"T0">> \o role \o <<"T1">> \o company \o <<"T2">> \o <<"T3">>
        \o company \o <<"T4">> \o role \o <<"T5">> \o role \o <<"T6">>
\* app.py:57-130  the prompt template; T0..T6 are its fixed stretches of
\* text, between the places where a value is interpolated.
Prompt(company, role, facts) ==
    <<"T0">> \o role \o <<"T1">> \o company \o <<"T2">> \o facts \o <<"T3">>
        \o company \o <<"T4">> \o role \o <<"T5">> \o role \o <<"T6">>

\* What the completion call comes back with.  "error": create() raises;
\* "no_choices": choices is empty; "ok": a choice whose message content is
\* None or a text.
ContentChars == {" ", "g"}
Completions ==
    {[kind |-> k, content |-> Null] : k \in {"error", "no_choices", "ok"}}
        \cup {[kind |-> "ok", content |-> Str(s)] :
                 s \in SeqsUpTo(ContentChars, MaxContentLen)}

Whitespace == {" ", NL}

RECURSIVE LStrip(_)
LStrip(s) ==
    IF s # <<>> /\ Head(s) \in Whitespace THEN LStrip(Tail(s)) ELSE s

RECURSIVE RStrip(_)
RStrip(s) ==
    IF s # <<>> /\ s[Len(s)] \in Whitespace
    THEN RStrip(SubSeq(s, 1, Len(s) - 1)) ELSE s

StripLeftOnly(s) == LStrip(s)
\* app.py:138  `.strip()`
Strip(s) == RStrip(LStrip(s))

\* app.py:131-141  generate_interview_guide, given what the completion call
\* came back with: every failure inside the try block is caught.
generate_interview_guide(out) ==
    IF out.kind # "ok" \/ out.content = Null
    THEN [error |-> TRUE, guide |-> <<>>]
    ELSE [error |-> FALSE, guide |-> Strip(out.content[2])]

Suffix ==
    <<"_", "I", "n", "t", "e", "r", "v", "i", "e", "w", "_",
      "G", "u", "i", "d", "e", ".", "t", "x", "t">>

\* app.py:186  f"{company_name}_{job_role}_Interview_Guide.txt"
FileName(company, role) == company \o <<"_">> \o role \o Suffix

NoDownload == [offered |-> FALSE, name |-> <<>>, data |-> <<>>]

\* app.py:177  `if guide`
GuideShown(guide) == guide # <<>>

NeverAbort(facts) == FALSE
\* app.py:166  `if not facts`
FactsMissing(facts) == facts = <<>>

TwoPosts(log) == log \o <<"search_call", "search_call">>
\* app.py:36  the one requests.post of a request
PostSearch(log) == Append(log, "search_call")

\* ------------------------------------------------------------------ state
VARIABLES
    env,           \* GROQ_API_KEY, SERPER_API_KEY as read at start-up
    pc,            \* where the script run stands
    company_name,  \* the submitted form fields
    job_role,
    response,      \* what the search call of this request came back with
    facts,         \* the digest search_company_info returned
    prompt,        \* the prompt handed to the completion call
    completion,    \* what the completion call came back with
    guide,         \* the guide generate_interview_guide returned
    shownDigest,   \* text rendered under "Web Insights"
    shownGuide,    \* text rendered under "AI Interview Guide"
    download,      \* the download button of this run
    events         \* calls and UI elements of this run, in order

vars == <<env, pc, company_name, job_role, response, facts, prompt,
          completion, guide, shownDigest, shownGuide, download, events>>

NoResponse == [kind |-> "none", organic |-> Absent]
NoCompletion == [kind |-> "none", content |-> Null]

\* A run that has ended with the form on the page: the next submit starts
\* a new run.
Settled == {"Idle", "Invalid", "FetchFailed", "Crashed", "Generated",
            "GenerateFailed"}

Init ==
    /\ env \in [GROQ_API_KEY : EnvValues, SERPER_API_KEY : EnvValues]
    /\ pc = "Start"
    /\ company_name = <<>>
    /\ job_role = <<>>
    /\ response = NoResponse
    /\ facts = <<>>
    /\ prompt = <<>>
    /\ completion = NoCompletion
    /\ guide = <<>>
    /\ shownDigest = <<>>
    /\ shownGuide = <<>>
    /\ download = NoDownload
    /\ events = <<>>

\* app.py:15-23, 144-155  the first run of the script, nothing submitted.
Gate ==
    /\ pc = "Start"
    /\ IF KeysMissing(env.GROQ_API_KEY, env.SERPER_API_KEY)
       THEN /\ pc' = "Halted"
            /\ events' = <<"error_keys">>
       ELSE /\ pc' = "Idle"
            /\ events' = <<"form">>
    /\ UNCHANGED <<env, company_name, job_role, response, facts, prompt,
                   completion, guide, shownDigest, shownGuide, download>>

\* app.py:152-164  the form is submitted: the script runs again (the keys
\* are the same, so the gate passes again), validates the two fields and,
\* when both are given, posts the search query.
Submit(company, role) ==
    /\ company_name' = company
    /\ job_role' = role
    /\ response' = NoResponse
    /\ facts' = <<>>
    /\ prompt' = <<>>
    /\ completion' = NoCompletion
    /\ guide' = <<>>
    /\ shownDigest' = <<>>
    /\ shownGuide' = <<>>
    /\ download' = NoDownload
    /\ IF InputsMissing(company, role)
       THEN /\ pc' = "Invalid"
            /\ events' = <<"form", "warn_inputs">>
       ELSE /\ pc' = "Fetching"
            /\ events' = PostSearch(<<"form">>)
    /\ UNCHANGED env

\* app.py:36-53, 164-175  the search call comes back with resp; the run goes
\* on up to the completion call.
SearchReturned(resp) ==
    /\ response' = resp
    /\ LET r == search_company_info(resp) IN
       IF r.how = "raise"
       THEN /\ pc' = "Crashed"
            /\ events' = Append(events, "exception")
            /\ UNCHANGED <<facts, prompt, shownDigest>>
       ELSE /\ facts' = r.facts
            /\ LET log == (IF r.error THEN Append(events, "error_fetch") ELSE events)
                              \o <<"search_return">>
               IN IF FactsMissing(r.facts)
                  THEN /\ pc' = "FetchFailed"
                       /\ events' = Append(log, "warn_nodata")
                       /\ UNCHANGED <<prompt, shownDigest>>
                  ELSE /\ pc' = "Generating"
                       /\ shownDigest' = r.facts
                       /\ prompt' = Prompt(company_name, job_role, r.facts)
                       /\ events' = log \o <<"show_digest", "completion_call">>
    /\ UNCHANGED <<env, company_name, job_role, completion, guide, shownGuide,
                   download>>

\* The search call comes back with any of the provider's replies.
SearchReturns ==
    /\ pc = "Fetching"
    /\ \E resp \in SearchResponses : SearchReturned(resp)

\* app.py:132-141, 175-188  the completion call comes back; the run ends.
CompletionReturned(out) ==
    /\ completion' = out
    /\ LET g == generate_interview_guide(out)
           log == (IF g.error THEN Append(events, "error_generate") ELSE events)
                      \o <<"completion_return">>
       IN /\ guide' = g.guide
          /\ IF GuideShown(g.guide)
             THEN /\ pc' = "Generated"
                  /\ shownGuide' = g.guide
                  /\ download' = [offered |-> TRUE,
                                  name |-> FileName(company_name, job_role),
                                  data |-> g.guide]
                  /\ events' = log \o <<"success", "show_guide", "download_button">>
             ELSE /\ pc' = "GenerateFailed"
                  /\ events' = log
                  /\ UNCHANGED <<shownGuide, download>>
    /\ UNCHANGED <<env, company_name, job_role, response, facts, prompt,
                   shownDigest>>

\* The completion call comes back with any of the provider's replies.
CompletionReturns ==
    /\ pc = "Generating"
    /\ \E out \in Completions : CompletionReturned(out)

\* The user fills the form in any way and submits it.
SubmitForm ==
    /\ pc \in Settled
    /\ \E company \in CompanyNames, role \in JobRoles : Submit(company, role)

Next ==
    \/ Gate
    \/ SubmitForm
    \/ SearchReturns
    \/ CompletionReturns

Spec == Init /\ [][Next]_vars

\* ----------------------------------------------------- reading the state
\* A request has been submitted in this run.
Submitted == pc \notin {"Start", "Halted", "Idle"}

SearchCalls == Count(events, "search_call")
CompletionCalls == Count(events, "completion_call")
SearchHasReturned == Count(events, "search_return") > 0

\* Event a happens in the log, and before every event b.
Before(a, b) ==
    /\ \E i \in 1..Len(events) : events[i] = a
    /\ \A i, j \in 1..Len(events) : events[i] = a /\ events[j] = b => i < j

IsCall(e) == e \in {"search_call", "search_return", "completion_call",
                    "completion_return"}
CallOrder == <<"search_call", "search_return", "completion_call",
               "completion_return">>

\* The search call came back 2xx with a JSON object whose `organic` is a
\* list of n results.
OkList == response.kind = "ok" /\ response.organic[1] = "list"
Results == response.organic[2]

ZeroResults ==
    /\ response.kind = "ok"
    /\ response.organic \in {Absent, Null, <<"list", <<>>>>}

\* The text of a field as the digest shows it: nothing when the key is
\* absent, Python's rendering of the value otherwise.
FieldText(v) ==
    IF v = Absent THEN <<>>
    ELSE IF v = Null THEN <<"N", "o", "n", "e">>
    ELSE v[2]

\* `- [title](link) — snippet`
Entry(item) ==
    <<"-", " ", "[">> \o FieldText(item.title) \o <<"]", "(">>
        \o FieldText(item.link) \o <<")", " ", EmDash, " ">>
        \o FieldText(item.snippet)

RECURSIVE NewlineJoined(_)
NewlineJoined(entries) ==
    IF entries = <<>> THEN <<>>
    ELSE IF Len(entries) = 1 THEN entries[1]
    ELSE entries[1] \o <<NL>> \o NewlineJoined(Tail(entries))

RECURSIVE SplitLines(_)
SplitLines(text) ==
    IF \A i \in 1..Len(text) : text[i] # NL THEN <<text>>
    ELSE LET i == CHOOSE k \in 1..Len(text) :
                      text[k] = NL /\ \A m \in 1..(k - 1) : text[m] # NL
         IN <<SubSeq(text, 1, i - 1)>> \o SplitLines(SubSeq(text, i + 1, Len(text)))

HasLineBreak(item) ==
    \E f \in {item.title, item.link, item.snippet} :
        \E i \in 1..Len(FieldText(f)) : FieldText(f)[i] = NL

\* ------------------------------------------------------------------ claims

\* C1: a submitted request with an empty company name or job role is
\* aborted with a warning, and neither the search call nor the completion
\* call is issued for it.
C1_InvalidRequestMakesNoCall ==
    (Submitted /\ (company_name = <<>> \/ job_role = <<>>)) =>
        /\ pc = "Invalid"
        /\ Count(events, "warn_inputs") = 1
        /\ SearchCalls = 0
        /\ CompletionCalls = 0

C1_Witness ==
    pc = "Invalid" /\ company_name = <<"A">> /\ job_role = <<>>

\* C2: when the search call fails (transport error or non-2xx status) the
\* digest is the empty string and the completion call is never issued for
\* that request; FetchFailed is left only by a new submission.
C2_FailedSearchNeverGenerates ==
    /\ [](response.kind \in {"transport", "http_error"} =>
            /\ facts = <<>>
            /\ pc = "FetchFailed"
            /\ Count(events, "error_fetch") = 1
            /\ CompletionCalls = 0)
    /\ [][pc = "FetchFailed" =>
            /\ pc' \in {"Invalid", "Fetching"}
            /\ response' = NoResponse]_vars

C2_Witness ==
    pc = "FetchFailed" /\ response.kind = "http_error"

C4_ZeroResultsProceedsWithSentinel ==
    (Submitted /\ ZeroResults) =>
        /\ facts = Sentinel
        /\ pc \in {"Generating", "Generated", "GenerateFailed"}
        /\ CompletionCalls = 1
        /\ Contains(prompt, <<"T2">> \o Sentinel \o <<"T3">>)

C4_Witness ==
    pc = "Generating" /\ response.kind = "ok" /\ response.organic = <<"list", <<>>>>

\* C5: a request with a non-empty digest issues the completion call exactly
\* once, after the digest is displayed, with a prompt holding the company
\* name, the job role and the digest; when the completion provider fails the
\* error is reported, the guide is empty and neither guide nor download is
\* shown.
C5_GenerateOnceAfterDigestShown ==
    /\ facts # <<>> =>
        /\ CompletionCalls = 1
        /\ shownDigest = facts
        /\ Before("show_digest", "completion_call")
        /\ Contains(prompt, company_name)
        /\ Contains(prompt, job_role)
        /\ Contains(prompt, facts)
    /\ completion.kind \in {"error", "no_choices"} =>
        /\ Count(events, "error_generate") = 1
        /\ guide = <<>>
        /\ shownGuide = <<>>
        /\ ~download.offered
        /\ Count(events, "show_guide") = 0
        /\ Count(events, "download_button") = 0

C5_Witness ==
    pc = "GenerateFailed" /\ completion.kind = "error" /\ Len(facts) > Len(Sentinel)

\* C6: with either key absent or empty the error is reported and the run
\* halts: the form is never rendered, nothing is submitted, and no search or
\* completion call is made.
C6_MissingKeyHalts ==
    (\E k \in {env.GROQ_API_KEY, env.SERPER_API_KEY} : k \in {Absent, Str(<<>>)}) =>
        /\ pc \in {"Start", "Halted"}
        /\ pc = "Halted" => events = <<"error_keys">>
        /\ Count(events, "form") = 0
        /\ SearchCalls = 0
        /\ CompletionCalls = 0

C6_Witness ==
    /\ pc = "Halted"
    /\ env.GROQ_API_KEY = Str(<<"k">>)
    /\ env.SERPER_API_KEY = Str(<<>>)

\* C7 as stated: every submitted request makes exactly one search call and
\* at most one completion call, the completion call after the search call
\* has returned, no call repeated.
C7_EveryRequestSearchesOnce ==
    Submitted =>
        /\ SearchCalls = 1
        /\ CompletionCalls <= 1
        /\ \E n \in 0..4 : SelectSeq(events, IsCall) = SubSeq(CallOrder, 1, n)

\* C7 as amended: a submitted request that passes validation makes exactly
\* one search call, one that fails validation makes none; either makes at
\* most one completion call, only after the search call has returned, and no
\* call is repeated.
C7_ValidRequestSearchesOnce ==
    Submitted =>
        /\ SearchCalls = (IF company_name # <<>> /\ job_role # <<>> THEN 1 ELSE 0)
        /\ CompletionCalls <= 1
        /\ \E n \in 0..4 : SelectSeq(events, IsCall) = SubSeq(CallOrder, 1, n)

C7_Witness ==
    /\ pc = "Generated"
    /\ SelectSeq(events, IsCall) = CallOrder

\* C8: no exception leaves search_company_info or generate_interview_guide,
\* whatever the providers answer: each returns a string.
C8_NoExceptionCrossesBoundary ==
    Count(events, "exception") = 0 /\ pc # "Crashed"

\* C9: the download is offered exactly when the returned guide (the
\* completion's content, stripped of leading and trailing whitespace) is
\* non-empty; its content is the displayed guide and its name is
\* <company>_<role>_Interview_Guide.txt from the submitted strings as they
\* are; a successful completion with empty content shows neither.
C9_DownloadIffGuideNonEmpty ==
    /\ download.offered <=> guide # <<>>
    /\ Count(events, "download_button") = (IF guide # <<>> THEN 1 ELSE 0)
    /\ Count(events, "show_guide") = (IF guide # <<>> THEN 1 ELSE 0)
    /\ download.offered =>
        /\ download.data = guide
        /\ shownGuide = guide
        /\ download.name = company_name \o <<"_">> \o job_role
               \o <<"_", "I", "n", "t", "e", "r", "v", "i", "e", "w", "_",
                    "G", "u", "i", "d", "e", ".", "t", "x", "t">>
    /\ (completion.kind = "ok" /\ completion.content # Null) =>
        LET c == completion.content[2] IN
        \E a, b \in 0..Len(c) :
            /\ a + b <= Len(c)
            /\ guide = SubSeq(c, a + 1, Len(c) - b)
            /\ \A i \in 1..a : c[i] \in {" ", NL}
            /\ \A i \in (Len(c) - b + 1)..Len(c) : c[i] \in {" ", NL}
            /\ guide # <<>> => guide[1] \notin {" ", NL} /\ guide[Len(guide)] \notin {" ", NL}

C9_Witness ==
    /\ pc = "Generated"
    /\ company_name = <<"/">>
    /\ completion.content = Str(<<"g", " ">>)
    /\ download.data = <<"g">>

\* C10: the return value tells the three outcomes apart: empty exactly when
\* the search call failed, the sentinel exactly when it succeeded with zero
\* results, and neither for a success with N >= 1 results whatever their
\* fields; so the orchestrator's abort fires only on provider failure.
C10_OutcomesDistinguishable ==
    SearchHasReturned =>
        /\ facts = <<>> <=> response.kind # "ok"
        /\ facts = Sentinel <=> ZeroResults
        /\ (OkList /\ Len(Results) >= 1) => (facts # <<>> /\ facts # Sentinel)
        /\ Count(events, "warn_nodata") = (IF response.kind # "ok" THEN 1 ELSE 0)
        /\ pc = "FetchFailed" <=> response.kind # "ok"

C10_Witness ==
    /\ pc = "Generating"
    /\ response.kind = "ok"
    /\ response.organic = <<"list", <<Bare>>>>

====
